---- MODULE Spec2Model ----
(***************************************************************************)
(* A model of hallucinaut/runtimebase: the baseline store of               *)
(* pkg/baseline/baseline.go (Learner, Baseline, Stat, DetectAnomaly), the  *)
(* batch functions of pkg/detect/detect.go and the CLI's detect command.   *)
(*                                                                         *)
(* float64 values are modelled as exact fractions <<n, d>> in lowest terms *)
(* with d > 0, extended with the IEEE-754 special values the code can      *)
(* produce: <<1, 0>> is +Inf, <<-1, 0>> is -Inf and <<0, 0>> is NaN.       *)
(* Rounding is not modelled; signed zeros are not modelled (the only       *)
(* divisor that can be zero in the code is the positive zero StdDev).      *)
(***************************************************************************)
EXTENDS Integers, Sequences, FiniteSets, TLC

VARIABLES
    baselines,   \* Learner.baselines: name -> Baseline
    now,         \* the clock read by time.Now(), one tick per call on the store
    recorded,    \* history: name -> key -> the values recorded so far, in order
    last,        \* the last call on the store: its arguments, outcome and result
    stats,       \* concurrent run: the shared Baseline.Stats map
    pc,          \* concurrent run: each goroutine's position in RecordObservation
    arg,         \* concurrent run: each goroutine's key
    stat,        \* concurrent run: each goroutine's local variable stat
    done,        \* concurrent run: each goroutine's completed calls, per key
    fatal,       \* concurrent run: the runtime stopped the program on a map race
    events,      \* batch run: the list of events (their Type fields)
    counts,      \* batch run: the baseline count map
    out,         \* batch run: the last function applied and its result
    items,       \* scan run: the list of items (syscalls, files or connections)
    expected,    \* scan run: the baseline map of expected counts
    scan         \* scan run: the last scan applied and the list it returned

vars == <<baselines, now, recorded, last, stats, pc, arg, stat, done, fatal,
          events, counts, out, items, expected, scan>>

storeVars == <<baselines, now, recorded, last>>
concVars  == <<stats, pc, arg, stat, done, fatal>>
batchVars == <<events, counts, out>>
scanVars  == <<items, expected, scan>>

(***************************************************************************)
(* float64                                                                 *)
(***************************************************************************)
Abs(i) == IF i < 0 THEN -i ELSE i

Sign(i) == IF i < 0 THEN -1 ELSE IF i > 0 THEN 1 ELSE 0

RECURSIVE Gcd(_, _)
Gcd(a, b) == IF b = 0 THEN a ELSE Gcd(b, a % b)

\* The fraction n/d, d # 0, in lowest terms with a positive denominator.
Norm(n, d) ==
    LET g == Gcd(Abs(n), Abs(d))
    IN  <<Sign(d) * (n \div g), Abs(d) \div g>>

Float(i) == <<i, 1>>

PosInf == <<1, 0>>
NegInf == <<-1, 0>>
NaN    == <<0, 0>>

IsNaN(a) == a[1] = 0 /\ a[2] = 0
IsInf(a) == a[1] # 0 /\ a[2] = 0
IsFinite(a) == a[2] > 0

FNeg(a) == <<-a[1], a[2]>>

FAdd(a, b) ==
    IF IsNaN(a) \/ IsNaN(b) THEN NaN
    ELSE IF IsInf(a) /\ IsInf(b) THEN (IF a = b THEN a ELSE NaN)
    ELSE IF IsInf(a) THEN a
    ELSE IF IsInf(b) THEN b
    ELSE Norm(a[1] * b[2] + b[1] * a[2], a[2] * b[2])

FSub(a, b) == FAdd(a, FNeg(b))

FMul(a, b) ==
    IF IsNaN(a) \/ IsNaN(b) THEN NaN
    ELSE IF IsInf(a) \/ IsInf(b)
         THEN (IF a[1] = 0 \/ b[1] = 0 THEN NaN
               ELSE <<Sign(a[1]) * Sign(b[1]), 0>>)
    ELSE Norm(a[1] * b[1], a[2] * b[2])

\* Go's float64 division: x/0 is +Inf or -Inf for x # 0 and NaN for x = 0; it
\* never panics.
FDiv(a, b) ==
    IF IsNaN(a) \/ IsNaN(b) THEN NaN
    ELSE IF IsInf(a) THEN (IF IsInf(b) THEN NaN
                           ELSE <<a[1] * (IF b[1] < 0 THEN -1 ELSE 1), 0>>)
    ELSE IF IsInf(b) THEN Float(0)
    ELSE IF b[1] = 0 THEN (IF a[1] = 0 THEN NaN ELSE <<Sign(a[1]), 0>>)
    ELSE Norm(a[1] * b[2], a[2] * b[1])

\* a < b; every comparison with NaN is false.
FLt(a, b) ==
    IF IsNaN(a) \/ IsNaN(b) THEN FALSE
    ELSE IF IsInf(a) THEN a = NegInf /\ b # NegInf
    ELSE IF IsInf(b) THEN b = PosInf
    ELSE a[1] * b[2] < b[1] * a[2]

FGt(a, b) == FLt(b, a)

FEq(a, b) == ~IsNaN(a) /\ ~IsNaN(b) /\ a = b

FLe(a, b) == FLt(a, b) \/ FEq(a, b)

\* The builtin min and max of two float64 (Go 1.21), used by UpdateBaseline.
min(a, b) == IF IsNaN(a) \/ IsNaN(b) THEN NaN ELSE IF FLt(a, b) THEN a ELSE b

max(a, b) == IF IsNaN(a) \/ IsNaN(b) THEN NaN ELSE IF FGt(a, b) THEN a ELSE b

(***************************************************************************)
(* Bounds of the store model                                               *)
(***************************************************************************)
\* The number of calls on the store in one run.
MaxOps == 5

Names == {"x", "y"}

Categories == {"syscall", "file"}

PatternNames == {"open"}

\* The observed values: int for RecordObservation and DetectAnomaly, and the
\* same values as float64 for UpdateBaseline.
Values == {-2, 1, 3}

(***************************************************************************)
(* pkg/baseline: Stat, Baseline, Learner                                   *)
(***************************************************************************)
\* Stat{}: Go's zero value.
ZeroStat ==
    [Mean |-> Float(0), StdDev |-> Float(0), Min |-> Float(0),
     Max |-> Float(0), SampleCount |-> 0]

\* The key of a signature in Baseline.Stats.
Key(category, pattern) == category \o ":" \o pattern

\* A nil *Baseline; a non-nil pointer is identified by the baseline's name.
NIL == "<nil>"

\* NewLearner: an empty map of baselines.
NewLearner == <<>>

AnomalyThreshold == Float(3)

\* The Baseline CreateBaseline builds, with both time.Now() reads at tick t.
NewBaseline(name, t) ==
    [Name |-> name, CreatedAt |-> t, UpdatedAt |-> t, Patterns |-> <<>>,
     Stats |-> <<>>, AnomalyThreshold |-> AnomalyThreshold]

\* l.baselines[name] = baseline: the map entry is set whether or not the name
\* was there.
CreateBaseline(learner, name, t) ==
    [n \in DOMAIN learner \cup {name} |->
        IF n = name THEN NewBaseline(name, t) ELSE learner[n]]

\* l.baselines[name]: nil for a name that is not in the map.
GetBaseline(learner, name) ==
    IF name \in DOMAIN learner THEN name ELSE NIL

\* RecordObservation on Baseline b: the new b.Stats. The count parameter is not
\* read.
RecordObservation(b, category, pattern, count) ==
    LET key == Key(category, pattern)
        s0  == IF key \in DOMAIN b.Stats THEN b.Stats
               ELSE [k \in DOMAIN b.Stats \cup {key} |->
                        IF k = key THEN ZeroStat ELSE b.Stats[k]]
        st  == [s0[key] EXCEPT !.SampleCount = @ + 1]
    IN  [s0 EXCEPT ![key] = st]

\* An UpdateBaseline that forgets to raise Max.
UpdateBaseline_StaleMax(b, category, pattern, count) ==
    LET key == Key(category, pattern)
    IN  IF key \notin DOMAIN b.Stats
        THEN [k \in DOMAIN b.Stats \cup {key} |->
                 IF k = key
                 THEN [Mean |-> count, StdDev |-> Float(0), Min |-> count,
                       Max |-> count, SampleCount |-> 0]
                 ELSE b.Stats[k]]
        ELSE LET st == b.Stats[key]
                 n  == Float(st.SampleCount)
                 n1 == Float(st.SampleCount + 1)
             IN  [b.Stats EXCEPT ![key] =
                     [st EXCEPT !.Mean = FDiv(FAdd(FMul(st.Mean, n), count), n1),
                                !.Min = min(st.Min, count)]]

\* UpdateBaseline on Baseline b: the new b.Stats. SampleCount is not written.
UpdateBaseline(b, category, pattern, count) ==
    LET key == Key(category, pattern)
    IN  IF key \notin DOMAIN b.Stats
        THEN [k \in DOMAIN b.Stats \cup {key} |->
                 IF k = key
                 THEN [Mean |-> count, StdDev |-> Float(0), Min |-> count,
                       Max |-> count, SampleCount |-> 0]
                 ELSE b.Stats[k]]
        ELSE LET st == b.Stats[key]
                 n  == Float(st.SampleCount)
                 n1 == Float(st.SampleCount + 1)
             IN  [b.Stats EXCEPT ![key] =
                     [st EXCEPT !.Mean = FDiv(FAdd(FMul(st.Mean, n), count), n1),
                                !.Max = max(st.Max, count),
                                !.Min = min(st.Min, count)]]

getSeverity(zScore) ==
    IF FGt(zScore, Float(5)) THEN "CRITICAL"
    ELSE IF FGt(zScore, Float(3)) THEN "HIGH"
    ELSE IF FGt(zScore, Float(2)) THEN "MEDIUM"
    ELSE "LOW"

calculateConfidence(zScore) ==
    LET confidence ==
            FSub(Float(1),
                 FDiv(Float(1),
                      FAdd(Float(1), FDiv(FMul(zScore, zScore), Float(2)))))
    IN  IF FGt(confidence, Float(1)) THEN Float(1) ELSE confidence

getRiskLevel(zScore) ==
    IF FGt(zScore, Float(5)) THEN "CRITICAL"
    ELSE IF FGt(zScore, Float(3)) THEN "HIGH"
    ELSE IF FGt(zScore, Float(2)) THEN "MEDIUM"
    ELSE "LOW"

\* The z-score DetectAnomaly computes: the division is not guarded.
ZScore(st, count) == FDiv(FSub(Float(count), st.Mean), st.StdDev)

\* The Anomaly DetectAnomaly appends for a z-score beyond the threshold.
NewAnomaly(pattern, zScore, t) ==
    [Type |-> "Behavioral Anomaly",
     Description |-> "Observed behavior deviates from baseline",
     Severity |-> getSeverity(zScore),
     Evidence |-> pattern,
     Confidence |-> calculateConfidence(zScore),
     Timestamp |-> t,
     RiskLevel |-> getRiskLevel(zScore)]

\* A DetectAnomaly that tests only zScore > threshold, not the negative side.
DetectAnomaly_OneSided(learner, name, category, pattern, count, t) ==
    LET baseline == GetBaseline(learner, name)
    IN  IF baseline = NIL THEN <<>>
        ELSE LET b   == learner[baseline]
                 key == Key(category, pattern)
             IN  IF key \notin DOMAIN b.Stats THEN <<>>
                 ELSE LET zScore == ZScore(b.Stats[key], count)
                      IN  IF FGt(zScore, b.AnomalyThreshold)
                          THEN <<NewAnomaly(pattern, zScore, t)>>
                          ELSE <<>>

\* A DetectAnomaly that drops the exists test and so judges the zero Stat the
\* map lookup yields for a missing key.
DetectAnomaly_NoExistsCheck(learner, name, category, pattern, count, t) ==
    LET baseline == GetBaseline(learner, name)
    IN  IF baseline = NIL THEN <<>>
        ELSE LET b   == learner[baseline]
                 key == Key(category, pattern)
                 st  == IF key \in DOMAIN b.Stats THEN b.Stats[key] ELSE ZeroStat
                 zScore == ZScore(st, count)
             IN  IF FGt(zScore, b.AnomalyThreshold)
                    \/ FLt(zScore, FNeg(b.AnomalyThreshold))
                 THEN <<NewAnomaly(pattern, zScore, t)>>
                 ELSE <<>>

\* DetectAnomaly at tick t: the list of anomalies it returns.
DetectAnomaly(learner, name, category, pattern, count, t) ==
    LET baseline == GetBaseline(learner, name)
    IN  IF baseline = NIL THEN <<>>
        ELSE LET b   == learner[baseline]
                 key == Key(category, pattern)
             IN  IF key \notin DOMAIN b.Stats THEN <<>>
                 ELSE LET zScore == ZScore(b.Stats[key], count)
                      IN  IF FGt(zScore, b.AnomalyThreshold)
                             \/ FLt(zScore, FNeg(b.AnomalyThreshold))
                          THEN <<NewAnomaly(pattern, zScore, t)>>
                          ELSE <<>>

\* IsNormal(count, mean, stddev, threshold).
IsNormal(count, mean, stddev, threshold) ==
    IF FEq(stddev, Float(0)) THEN FEq(count, mean)
    ELSE LET zScore == FDiv(FSub(count, mean), stddev)
         IN  FLe(zScore, threshold) /\ FLe(FNeg(threshold), zScore)

(***************************************************************************)
(* The store as a state machine: a client calls the package's API on one   *)
(* Learner. A method of *Baseline is called on the pointer GetBaseline     *)
(* returns for the name at the time of the call.                           *)
(***************************************************************************)
NoCall ==
    [op |-> "none", name |-> "", category |-> "", pattern |-> "", count |-> 0,
     outcome |-> "ok", ret |-> NIL, anomalies |-> <<>>]

Call(op, name, category, pattern, count, outcome, ret, anomalies) ==
    [op |-> op, name |-> name, category |-> category, pattern |-> pattern,
     count |-> count, outcome |-> outcome, ret |-> ret, anomalies |-> anomalies]

\* The process is running: no call has panicked and main has not returned.
Running == last.outcome = "ok" /\ last.op # "detectAnomalies" /\ now < MaxOps

\* recorded with value v appended to the history of (name, key).
Remember(name, key, v) ==
    [recorded EXCEPT ![name] =
        [k \in DOMAIN recorded[name] \cup {key} |->
            IF k = key
            THEN (IF key \in DOMAIN recorded[name]
                  THEN Append(recorded[name][key], v) ELSE <<v>>)
            ELSE recorded[name][k]]]

DoCreateBaseline(name) ==
    /\ Running
    /\ baselines' = CreateBaseline(baselines, name, now)
    /\ recorded' = [n \in DOMAIN recorded \cup {name} |->
                       IF n = name THEN <<>> ELSE recorded[n]]
    /\ last' = Call("CreateBaseline", name, "", "", 0, "ok", name, <<>>)
    /\ now' = now + 1

DoGetBaseline(name) ==
    /\ Running
    /\ last' = Call("GetBaseline", name, "", "", 0, "ok",
                    GetBaseline(baselines, name), <<>>)
    /\ now' = now + 1
    /\ UNCHANGED <<baselines, recorded>>

\* learner.GetBaseline(name).RecordObservation(category, pattern, count): the
\* method reads b.Stats, which panics on a nil receiver.
DoRecordObservation(name, category, pattern, count) ==
    /\ Running
    /\ LET b == GetBaseline(baselines, name)
       IN  IF b = NIL
           THEN /\ last' = Call("RecordObservation", name, category, pattern,
                                count, "panic", NIL, <<>>)
                /\ UNCHANGED <<baselines, recorded>>
           ELSE /\ baselines' =
                      [baselines EXCEPT ![b].Stats =
                          RecordObservation(baselines[b], category, pattern, count)]
                /\ recorded' = Remember(name, Key(category, pattern), count)
                /\ last' = Call("RecordObservation", name, category, pattern,
                                count, "ok", b, <<>>)
    /\ now' = now + 1

DoUpdateBaseline(name, category, pattern, count) ==
    /\ Running
    /\ LET b == GetBaseline(baselines, name)
       IN  IF b = NIL
           THEN /\ last' = Call("UpdateBaseline", name, category, pattern,
                                count, "panic", NIL, <<>>)
                /\ UNCHANGED <<baselines, recorded>>
           ELSE /\ baselines' =
                      [baselines EXCEPT ![b].Stats =
                          UpdateBaseline(baselines[b], category, pattern,
                                         Float(count))]
                /\ recorded' = Remember(name, Key(category, pattern), count)
                /\ last' = Call("UpdateBaseline", name, category, pattern,
                                count, "ok", b, <<>>)
    /\ now' = now + 1

DoDetectAnomaly(name, category, pattern, count) ==
    /\ Running
    /\ last' = Call("DetectAnomaly", name, category, pattern, count, "ok",
                    GetBaseline(baselines, name),
                    DetectAnomaly(baselines, name, category, pattern, count, now))
    /\ now' = now + 1
    /\ UNCHANGED <<baselines, recorded>>

\* The CLI's detect command, a whole run of the program: a new Learner, the
\* baseline created under the given name, three observations, one detection,
\* and main returns (exit code 0).
detectAnomalies(name) ==
    /\ Running
    /\ last.op = "none"
    /\ LET l0 == CreateBaseline(NewLearner, name, now)
           s1 == RecordObservation(l0[name], "syscall", "open", 100)
           l1 == [l0 EXCEPT ![name].Stats = s1]
           s2 == RecordObservation(l1[name], "syscall", "read", 500)
           l2 == [l1 EXCEPT ![name].Stats = s2]
           s3 == RecordObservation(l2[name], "file", "write", 200)
           l3 == [l2 EXCEPT ![name].Stats = s3]
       IN  /\ baselines' = l3
           /\ recorded' = [n \in {name} |->
                             [k \in {"syscall:open", "syscall:read", "file:write"} |->
                                IF k = "syscall:open" THEN <<100>>
                                ELSE IF k = "syscall:read" THEN <<500>>
                                ELSE <<200>>]]
           /\ last' = Call("detectAnomalies", name, "syscall", "open", 500, "ok",
                           name,
                           DetectAnomaly(l3, name, "syscall", "open", 500, now))
    /\ now' = now + 1

StoreInit ==
    /\ baselines = NewLearner
    /\ now = 0
    /\ recorded = <<>>
    /\ last = NoCall

ConcIdle ==
    /\ stats = <<>>
    /\ pc = <<>>
    /\ arg = <<>>
    /\ stat = <<>>
    /\ done = <<>>
    /\ fatal = FALSE

BatchIdle ==
    /\ events = <<>>
    /\ counts = <<>>
    /\ out = [fn |-> "none", results |-> <<>>, score |-> Float(0)]

ScanIdle ==
    /\ items = <<>>
    /\ expected = <<>>
    /\ scan = [fn |-> "none", anomalies |-> <<>>]

Init == StoreInit /\ ConcIdle /\ BatchIdle /\ ScanIdle

Next ==
    \/ \E name \in Names : DoCreateBaseline(name) /\ UNCHANGED <<concVars, batchVars, scanVars>>
    \/ \E name \in Names : DoGetBaseline(name) /\ UNCHANGED <<concVars, batchVars, scanVars>>
    \/ \E name \in Names, c \in Categories, p \in PatternNames, v \in Values :
          DoRecordObservation(name, c, p, v) /\ UNCHANGED <<concVars, batchVars, scanVars>>
    \/ \E name \in Names, c \in Categories, p \in PatternNames, v \in Values :
          DoUpdateBaseline(name, c, p, v) /\ UNCHANGED <<concVars, batchVars, scanVars>>
    \/ \E name \in Names, c \in Categories, p \in PatternNames, v \in Values :
          DoDetectAnomaly(name, c, p, v) /\ UNCHANGED <<concVars, batchVars, scanVars>>
    \/ \E name \in Names : detectAnomalies(name) /\ UNCHANGED <<concVars, batchVars, scanVars>>

Spec == Init /\ [][Next]_vars

(***************************************************************************)
(* Claims about the store, checked under Spec                              *)
(***************************************************************************)
RECURSIVE SumSeq(_)
SumSeq(h) == IF h = <<>> THEN 0 ELSE h[1] + SumSeq(Tail(h))

\* The Stat the last call looked up, when there is one.
LastKey == Key(last.category, last.pattern)

LastHasStat ==
    /\ last.name \in DOMAIN baselines
    /\ LastKey \in DOMAIN baselines[last.name].Stats

LastStat == baselines[last.name].Stats[LastKey]

LastIsDetect == last.op \in {"DetectAnomaly", "detectAnomalies"}

\* C1: after every recorded observation, the Stat's mean of each signature is
\* the arithmetic mean of all the values recorded so far for that signature.
C1_MeanIsArithmeticMean ==
    \A n \in DOMAIN baselines :
        \A k \in DOMAIN recorded[n] :
            /\ k \in DOMAIN baselines[n].Stats
            /\ baselines[n].Stats[k].Mean =
                   Norm(SumSeq(recorded[n][k]), Len(recorded[n][k]))

\* C2: when the looked-up Stat has StdDev = 0, DetectAnomaly returns no anomaly
\* when the observed value equals the Stat's mean and exactly one anomaly when
\* it differs (above or below), which is also what IsNormal answers.
C2_ZeroVarianceFlagsIffDiffers ==
    (LastIsDetect /\ LastHasStat /\ LastStat.StdDev = Float(0)) =>
        /\ (Float(last.count) = LastStat.Mean => Len(last.anomalies) = 0)
        /\ (Float(last.count) # LastStat.Mean => Len(last.anomalies) = 1)
        /\ (Len(last.anomalies) = 0) <=>
               IsNormal(Float(last.count), LastStat.Mean, LastStat.StdDev,
                        baselines[last.name].AnomalyThreshold)

\* A detection on a zero-variance Stat flagged a value below the mean.
C2_Witness ==
    /\ last.op = "DetectAnomaly"
    /\ LastHasStat
    /\ LastStat.StdDev = Float(0)
    /\ FLt(Float(last.count), LastStat.Mean)
    /\ LastStat.Mean # Float(0)
    /\ Len(last.anomalies) = 1

\* The severity rule of the specification: MEDIUM at zero variance, otherwise
\* banded on |z|.
FAbs(a) == <<Abs(a[1]), a[2]>>

RuleSeverity(st, count) ==
    IF st.StdDev = Float(0) THEN "MEDIUM"
    ELSE LET z == FAbs(FDiv(FSub(Float(count), st.Mean), st.StdDev))
         IN  IF FGt(z, Float(5)) THEN "CRITICAL"
             ELSE IF FGt(z, Float(3)) THEN "HIGH"
             ELSE IF FGt(z, Float(2)) THEN "MEDIUM"
             ELSE "LOW"

\* C3: the severity of every anomaly DetectAnomaly returns is the rule's:
\* MEDIUM at zero variance, otherwise CRITICAL, HIGH, MEDIUM or LOW by |z|.
C3_SeverityFollowsRule ==
    (LastIsDetect /\ LastHasStat) =>
        \A i \in 1..Len(last.anomalies) :
            last.anomalies[i].Severity = RuleSeverity(LastStat, last.count)

\* C4: DetectAnomaly returns no anomaly for a signature that has no Stat in the
\* named baseline, whatever the observed value and the Stats of other
\* signatures.
C4_NoStatNoAnomaly ==
    (last.op = "DetectAnomaly" /\ ~LastHasStat) => last.anomalies = <<>>

\* A detection of a non-zero value on a signature without a Stat, in a baseline
\* that holds a Stat of another signature.
C4_Witness ==
    /\ last.op = "DetectAnomaly"
    /\ last.name \in DOMAIN baselines
    /\ LastKey \notin DOMAIN baselines[last.name].Stats
    /\ DOMAIN baselines[last.name].Stats # {}
    /\ last.count # 0
    /\ last.anomalies = <<>>

\* C5: CreateBaseline on a name that is in the store fails with
\* DuplicateNameError and leaves the store's baselines as they were.
C5_CreateExistingFails ==
    [][(last'.op = "CreateBaseline" /\ last'.name \in DOMAIN baselines) =>
          (last'.outcome = "DuplicateNameError" /\ baselines' = baselines)]_vars

\* The ways a call reports a missing baseline: an error outcome, or GetBaseline's
\* nil pointer.
NotFoundSurfaced(call) ==
    \/ call.outcome = "NotFoundError"
    \/ (call.op = "GetBaseline" /\ call.ret = NIL)

\* C6: every call that needs an existing baseline (GetBaseline, RecordObservation,
\* DetectAnomaly, the CLI's detect), given a name that is not in the store,
\* reports NotFoundError and adds no baseline under that name.
C6_MissingBaselineIsNotFound ==
    [][(/\ last'.op \in {"GetBaseline", "RecordObservation", "DetectAnomaly",
                         "detectAnomalies"}
        /\ last'.name \notin DOMAIN baselines) =>
          (NotFoundSurfaced(last') /\ last'.name \notin DOMAIN baselines')]_vars

MaxSingles == 2

MaxBursts == 2

BurstLen == 100

EventTypes == {"file", "network"}

BaselineKeys == {"syscall", "file"}

BaselineCounts == {-1, 0, 1, 2}

\* NewDetector's patterns, in order (the Regex field is not read by Detect).
patterns ==
    << [Name |-> "Excessive File Access", Category |-> "file",
        Severity |-> "MEDIUM",
        Description |-> "High frequency file access detected"],
       [Name |-> "Network Connection Spike", Category |-> "network",
        Severity |-> "HIGH",
        Description |-> "Abnormal network connection activity"],
       [Name |-> "Process Fork Bomb", Category |-> "process",
        Severity |-> "CRITICAL",
        Description |-> "Excessive process creation detected"],
       [Name |-> "System Call Spike", Category |-> "syscall",
        Severity |-> "MEDIUM",
        Description |-> "High system call frequency"] >>

\* categoryCounts[type] after the counting loop of Detect (0 for a missing key).
CategoryCount(evs, type) == Cardinality({i \in 1..Len(evs) : evs[i] = type})

\* The threshold of Detect and the divisor of its confidence.
DetectThreshold == 100

ConfidenceDivisor == 200

RECURSIVE DetectFrom(_, _)
DetectFrom(evs, i) ==
    IF i > Len(patterns) THEN <<>>
    ELSE LET pattern == patterns[i]
             count   == CategoryCount(evs, pattern.Category)
         IN  (IF count > DetectThreshold
              THEN << [Pattern |-> pattern.Name,
                       Severity |-> pattern.Severity,
                       Confidence |-> FDiv(Float(count), Float(ConfidenceDivisor)),
                       Description |-> pattern.Description,
                       Recommendation |->
                         "Review and investigate this activity"] >>
              ELSE <<>>) \o DetectFrom(evs, i + 1)

\* Detector.Detect(events): one result per pattern whose category has more than
\* 100 events in the batch.
Detect(evs) == DetectFrom(evs, 1)

\* The sum loop of CalculateBehaviorScore over the baseline map.
RECURSIVE TotalBaseline(_)
TotalBaseline(baseline) ==
    IF DOMAIN baseline = {} THEN Float(0)
    ELSE LET k == CHOOSE x \in DOMAIN baseline : TRUE
         IN  FAdd(Float(baseline[k]),
                  TotalBaseline([x \in DOMAIN baseline \ {k} |-> baseline[x]]))

\* A CalculateBehaviorScore without the upper clamp.
CalculateBehaviorScore_NoUpperClamp(evs, baseline) ==
    IF Cardinality(DOMAIN baseline) = 0 THEN Float(100)
    ELSE LET totalEvents   == Float(Len(evs))
             totalBaseline == TotalBaseline(baseline)
         IN  IF FEq(totalBaseline, Float(0)) THEN Float(100)
             ELSE LET ratio == FDiv(totalEvents, totalBaseline)
                      score == FSub(Float(100),
                                    FMul(FSub(ratio, Float(1)), Float(50)))
                  IN  IF FLt(score, Float(0)) THEN Float(0) ELSE score

CalculateBehaviorScore(evs, baseline) ==
    IF Cardinality(DOMAIN baseline) = 0 THEN Float(100)
    ELSE LET totalEvents   == Float(Len(evs))
             totalBaseline == TotalBaseline(baseline)
         IN  IF FEq(totalBaseline, Float(0)) THEN Float(100)
             ELSE LET ratio == FDiv(totalEvents, totalBaseline)
                      score == FSub(Float(100),
                                    FMul(FSub(ratio, Float(1)), Float(50)))
                      s1    == IF FLt(score, Float(0)) THEN Float(0) ELSE score
                  IN  IF FGt(s1, Float(100)) THEN Float(100) ELSE s1

\* The baseline count maps of the batch runs.
BaselineMaps ==
    UNION {[D -> BaselineCounts] : D \in SUBSET BaselineKeys}

\* No function has been applied to the batch as it is.
NoResult == [fn |-> "none", results |-> <<>>, score |-> Float(0)]

Burst(type) == [i \in 1..BurstLen |-> type]

AddEvent(type) ==
    /\ Len(events) % BurstLen < MaxSingles
    /\ events' = Append(events, type)
    /\ out' = NoResult
    /\ UNCHANGED counts

AddBurst(type) ==
    /\ Len(events) \div BurstLen < MaxBursts
    /\ events' = events \o Burst(type)
    /\ out' = NoResult
    /\ UNCHANGED counts

DoDetect ==
    /\ out' = [fn |-> "Detect", results |-> Detect(events), score |-> Float(0)]
    /\ UNCHANGED <<events, counts>>

DoCalculateBehaviorScore ==
    /\ out' = [fn |-> "CalculateBehaviorScore", results |-> <<>>,
               score |-> CalculateBehaviorScore(events, counts)]
    /\ UNCHANGED <<events, counts>>

BatchInit ==
    /\ events = <<>>
    /\ counts \in BaselineMaps
    /\ out = NoResult

InitBatch == StoreInit /\ ConcIdle /\ BatchInit /\ ScanIdle

NextBatch ==
    \/ \E type \in EventTypes : AddEvent(type) /\ UNCHANGED <<storeVars, concVars, scanVars>>
    \/ \E type \in EventTypes : AddBurst(type) /\ UNCHANGED <<storeVars, concVars, scanVars>>
    \/ DoDetect /\ UNCHANGED <<storeVars, concVars, scanVars>>
    \/ DoCalculateBehaviorScore /\ UNCHANGED <<storeVars, concVars, scanVars>>

SpecBatch == InitBatch /\ [][NextBatch]_vars

(***************************************************************************)
(* Claims about the batch functions, checked under SpecBatch               *)
(***************************************************************************)
InUnitInterval(c) == FLe(Float(0), c) /\ FLe(c, Float(1))

\* C7: every anomaly record has a confidence within [0,1]: every Anomaly of
\* DetectAnomaly and every AnomalyResult of Detect, for a batch of any size.
C7_ConfidenceInUnitInterval ==
    /\ \A i \in 1..Len(last.anomalies) :
           InUnitInterval(last.anomalies[i].Confidence)
    /\ \A i \in 1..Len(out.results) :
           InUnitInterval(out.results[i].Confidence)

RECURSIVE SumCounts(_)
SumCounts(baseline) ==
    IF DOMAIN baseline = {} THEN 0
    ELSE LET k == CHOOSE x \in DOMAIN baseline : TRUE
         IN  baseline[k] + SumCounts([x \in DOMAIN baseline \ {k} |-> baseline[x]])

\* clamp(100 - (n/total - 1) * 50, 0, 100) for total # 0, in integer arithmetic:
\* 100 - (n/total - 1) * 50 = (150 * total - 50 * n) / total.
ClampedScore(n, total) ==
    LET raw == Norm(150 * total - 50 * n, total)
    IN  IF raw[1] < 0 THEN Float(0)
        ELSE IF raw[1] > 100 * raw[2] THEN Float(100)
        ELSE raw

\* events with the elements at i and i + 1 exchanged.
SwapAt(evs, i) ==
    [j \in 1..Len(evs) |->
        IF j = i THEN evs[i + 1] ELSE IF j = i + 1 THEN evs[i] ELSE evs[j]]

Reverse(evs) == [j \in 1..Len(evs) |-> evs[Len(evs) + 1 - j]]

\* C8: CalculateBehaviorScore is 100 when the map is empty or its counts sum to
\* 0 and clamp(100 - (ratio - 1) * 50, 0, 100) otherwise, always within [0,100],
\* and the same for every reordering of the events.
C8_BehaviorScore ==
    out.fn = "CalculateBehaviorScore" =>
        /\ (DOMAIN counts = {} \/ SumCounts(counts) = 0) => out.score = Float(100)
        /\ (DOMAIN counts # {} /\ SumCounts(counts) # 0) =>
               out.score = ClampedScore(Len(events), SumCounts(counts))
        /\ FLe(Float(0), out.score) /\ FLe(out.score, Float(100))
        /\ \A i \in 1..(Len(events) - 1) :
               events[i] # events[i + 1] =>
                   CalculateBehaviorScore(SwapAt(events, i), counts) = out.score
        /\ CalculateBehaviorScore(Reverse(events), counts) = out.score

\* A score strictly between 0 and 100 computed for a batch of events of two
\* types against a baseline of two counts.
C8_Witness ==
    /\ out.fn = "CalculateBehaviorScore"
    /\ Cardinality(DOMAIN counts) = 2
    /\ Len(events) >= 2
    /\ \E i \in 1..(Len(events) - 1) : events[i] # events[i + 1]
    /\ FLt(Float(0), out.score)
    /\ FLt(out.score, Float(100))

(***************************************************************************)
(* Concurrent RecordObservation calls on one Baseline. The method takes no *)
(* lock, so each goroutine runs its statements (baseline.go lines 81-87)   *)
(* one at a time, interleaved with the other's. Two accesses of the map    *)
(* b.Stats that are both about to run, one of them a write, are a data     *)
(* race: the Go runtime may stop the program ("concurrent map writes",     *)
(* "concurrent map read and map write") or let both run.                   *)
(***************************************************************************)
Goroutines == {"g1", "g2"}

\* The number of RecordObservation calls each goroutine makes.
MaxCalls == 2

ConcKeys == {Key("syscall", "open"), Key("file", "open")}

\* The statements that read the map and those that write it.
MapReads == {"exists", "read"}

MapWrites == {"insert", "write"}

Calls(g) == done[g][Key("syscall", "open")] + done[g][Key("file", "open")]

\* Line 81: the call starts and computes its key.
Start(g, key) ==
    /\ ~fatal
    /\ pc[g] = "idle"
    /\ Calls(g) < MaxCalls
    /\ arg' = [arg EXCEPT ![g] = key]
    /\ pc' = [pc EXCEPT ![g] = "exists"]
    /\ UNCHANGED <<stats, stat, done, fatal>>

\* Line 82: if _, exists := b.Stats[key]; !exists
CheckExists(g) ==
    /\ ~fatal
    /\ pc[g] = "exists"
    /\ pc' = [pc EXCEPT ![g] =
                 IF arg[g] \in DOMAIN stats THEN "read" ELSE "insert"]
    /\ UNCHANGED <<stats, arg, stat, done, fatal>>

\* Line 83: b.Stats[key] = Stat{}
InsertZero(g) ==
    /\ ~fatal
    /\ pc[g] = "insert"
    /\ stats' = [k \in DOMAIN stats \cup {arg[g]} |->
                    IF k = arg[g] THEN ZeroStat ELSE stats[k]]
    /\ pc' = [pc EXCEPT ![g] = "read"]
    /\ UNCHANGED <<arg, stat, done, fatal>>

\* Line 85: stat := b.Stats[key]
ReadStat(g) ==
    /\ ~fatal
    /\ pc[g] = "read"
    /\ stat' = [stat EXCEPT ![g] = stats[arg[g]]]
    /\ pc' = [pc EXCEPT ![g] = "incr"]
    /\ UNCHANGED <<stats, arg, done, fatal>>

\* Line 86: stat.SampleCount++
Increment(g) ==
    /\ ~fatal
    /\ pc[g] = "incr"
    /\ stat' = [stat EXCEPT ![g].SampleCount = @ + 1]
    /\ pc' = [pc EXCEPT ![g] = "write"]
    /\ UNCHANGED <<stats, arg, done, fatal>>

\* Line 87: b.Stats[key] = stat, and the call returns.
WriteBack(g) ==
    /\ ~fatal
    /\ pc[g] = "write"
    /\ stats' = [stats EXCEPT ![arg[g]] = stat[g]]
    /\ done' = [done EXCEPT ![g][arg[g]] = @ + 1]
    /\ pc' = [pc EXCEPT ![g] = "idle"]
    /\ UNCHANGED <<arg, stat, fatal>>

\* The runtime's check catches two racing map accesses and stops the program.
RaceFatal(g) ==
    /\ ~fatal
    /\ pc[g] \in MapWrites
    /\ \E h \in Goroutines \ {g} : pc[h] \in MapReads \cup MapWrites
    /\ fatal' = TRUE
    /\ UNCHANGED <<stats, pc, arg, stat, done>>

ConcInit ==
    /\ stats = <<>>
    /\ pc = [g \in Goroutines |-> "idle"]
    /\ arg = [g \in Goroutines |-> Key("syscall", "open")]
    /\ stat = [g \in Goroutines |-> ZeroStat]
    /\ done = [g \in Goroutines |-> [k \in ConcKeys |-> 0]]
    /\ fatal = FALSE

InitConc == StoreInit /\ ConcInit /\ BatchIdle /\ ScanIdle

NextConc ==
    \/ \E g \in Goroutines, key \in ConcKeys :
          Start(g, key) /\ UNCHANGED <<storeVars, batchVars, scanVars>>
    \/ \E g \in Goroutines : CheckExists(g) /\ UNCHANGED <<storeVars, batchVars, scanVars>>
    \/ \E g \in Goroutines : InsertZero(g) /\ UNCHANGED <<storeVars, batchVars, scanVars>>
    \/ \E g \in Goroutines : ReadStat(g) /\ UNCHANGED <<storeVars, batchVars, scanVars>>
    \/ \E g \in Goroutines : Increment(g) /\ UNCHANGED <<storeVars, batchVars, scanVars>>
    \/ \E g \in Goroutines : WriteBack(g) /\ UNCHANGED <<storeVars, batchVars, scanVars>>
    \/ \E g \in Goroutines : RaceFatal(g) /\ UNCHANGED <<storeVars, batchVars, scanVars>>

SpecConc == InitConc /\ [][NextConc]_vars

(***************************************************************************)
(* Claims about concurrent calls, checked under SpecConc                   *)
(***************************************************************************)
\* The calls on key that have returned.
Completed(key) == done["g1"][key] + done["g2"][key]

SampleCountOf(key) == IF key \in DOMAIN stats THEN stats[key].SampleCount ELSE 0

\* C9: concurrent RecordObservation calls on one signature lose no update: once
\* the calls have all returned, the signature's sample count is the number of
\* calls made on it.
C9_NoLostUpdate ==
    (~fatal /\ \A g \in Goroutines : pc[g] = "idle") =>
        \A key \in ConcKeys : SampleCountOf(key) = Completed(key)

(***************************************************************************)
(* pkg/detect: the three per-dimension scans of a list of items against a  *)
(* baseline map of expected counts.                                        *)
(***************************************************************************)
\* The longest list of items.
MaxItems == 6

ScanItems == {"open", "read"}

ExpectedCounts == {0, 1}

\* The multipliers of the syscall, file and network scans.
SyscallMultiplier == 3

FileMultiplier == 5

NetworkMultiplier == 3

\* The inner loop of each scan: the number of elements of list equal to item.
Occurrences(list, item) ==
    Cardinality({j \in 1..Len(list) : list[j] = item})

\* DetectSystemCallAnomaly from element i on: every element is judged, with no
\* seen set.
RECURSIVE SystemCallFrom(_, _, _)
SystemCallFrom(syscalls, baseline, i) ==
    IF i > Len(syscalls) THEN <<>>
    ELSE LET syscall == syscalls[i]
             count   == Occurrences(syscalls, syscall)
         IN  (IF syscall \in DOMAIN baseline
                 /\ count > baseline[syscall] * SyscallMultiplier
              THEN <<syscall>> ELSE <<>>)
             \o SystemCallFrom(syscalls, baseline, i + 1)

DetectSystemCallAnomaly(syscalls, baseline) ==
    SystemCallFrom(syscalls, baseline, 1)

\* DetectFileAccessAnomaly from element i on, with the set seen so far.
RECURSIVE FileAccessFrom(_, _, _, _)
FileAccessFrom(files, baseline, i, seen) ==
    IF i > Len(files) THEN <<>>
    ELSE LET file == files[i]
         IN  IF file \in seen THEN FileAccessFrom(files, baseline, i + 1, seen)
             ELSE LET count == Occurrences(files, file)
                  IN  (IF file \in DOMAIN baseline
                          /\ count > baseline[file] * FileMultiplier
                       THEN <<file>> ELSE <<>>)
                      \o FileAccessFrom(files, baseline, i + 1, seen \cup {file})

DetectFileAccessAnomaly(files, baseline) ==
    FileAccessFrom(files, baseline, 1, {})

\* DetectNetworkAnomaly from element i on, with the set seen so far.
RECURSIVE NetworkFrom(_, _, _, _)
NetworkFrom(connections, baseline, i, seen) ==
    IF i > Len(connections) THEN <<>>
    ELSE LET conn == connections[i]
         IN  IF conn \in seen THEN NetworkFrom(connections, baseline, i + 1, seen)
             ELSE LET count == Occurrences(connections, conn)
                  IN  (IF conn \in DOMAIN baseline
                          /\ count > baseline[conn] * NetworkMultiplier
                       THEN <<conn>> ELSE <<>>)
                      \o NetworkFrom(connections, baseline, i + 1, seen \cup {conn})

DetectNetworkAnomaly(connections, baseline) ==
    NetworkFrom(connections, baseline, 1, {})

ExpectedMaps ==
    UNION {[D -> ExpectedCounts] : D \in SUBSET ScanItems}

NoScan == [fn |-> "none", anomalies |-> <<>>]

AddItem(item) ==
    /\ Len(items) < MaxItems
    /\ items' = Append(items, item)
    /\ scan' = NoScan
    /\ UNCHANGED expected

DoDetectSystemCallAnomaly ==
    /\ scan' = [fn |-> "DetectSystemCallAnomaly",
                anomalies |-> DetectSystemCallAnomaly(items, expected)]
    /\ UNCHANGED <<items, expected>>

DoDetectFileAccessAnomaly ==
    /\ scan' = [fn |-> "DetectFileAccessAnomaly",
                anomalies |-> DetectFileAccessAnomaly(items, expected)]
    /\ UNCHANGED <<items, expected>>

DoDetectNetworkAnomaly ==
    /\ scan' = [fn |-> "DetectNetworkAnomaly",
                anomalies |-> DetectNetworkAnomaly(items, expected)]
    /\ UNCHANGED <<items, expected>>

ScanInit ==
    /\ items = <<>>
    /\ expected \in ExpectedMaps
    /\ scan = NoScan

InitScan == StoreInit /\ ConcIdle /\ BatchIdle /\ ScanInit

NextScan ==
    \/ \E item \in ScanItems :
          AddItem(item) /\ UNCHANGED <<storeVars, concVars, batchVars>>
    \/ DoDetectSystemCallAnomaly /\ UNCHANGED <<storeVars, concVars, batchVars>>
    \/ DoDetectFileAccessAnomaly /\ UNCHANGED <<storeVars, concVars, batchVars>>
    \/ DoDetectNetworkAnomaly /\ UNCHANGED <<storeVars, concVars, batchVars>>

SpecScan == InitScan /\ [][NextScan]_vars

(***************************************************************************)
(* Claims about the scans, checked under SpecScan                          *)
(***************************************************************************)
\* The multiplier the claim gives each scan.
MultiplierOf(fn) == IF fn = "DetectFileAccessAnomaly" THEN 5 ELSE 3

\* item is a key of the baseline and occurs more than expected times multiplier.
Exceeds(item, mult) ==
    /\ item \in DOMAIN expected
    /\ Occurrences(items, item) > expected[item] * mult

\* C11: each scan lists an item exactly once if it is a key of the baseline and
\* occurs more than expected count times the multiplier (3 for syscalls and
\* network, 5 for files), and not at all otherwise; the syscall scan and the
\* network scan return the same list.
C11_ScansShareOneAlgorithm ==
    /\ scan.fn # "none" =>
           \A item \in ScanItems :
               Occurrences(scan.anomalies, item) =
                   IF Exceeds(item, MultiplierOf(scan.fn)) THEN 1 ELSE 0
    /\ DetectSystemCallAnomaly(items, expected) =
           DetectNetworkAnomaly(items, expected)

(***************************************************************************)
(* Claims about the baseline's timestamps, checked under Spec              *)
(***************************************************************************)
\* C12: after each RecordObservation or UpdateBaseline call on a baseline, its
\* UpdatedAt is the time of that call and its CreatedAt is what it was.
C12_MutationRefreshesUpdatedAt ==
    [][(/\ last'.op \in {"RecordObservation", "UpdateBaseline"}
        /\ last'.outcome = "ok") =>
          (/\ baselines'[last'.name].UpdatedAt = now
           /\ baselines'[last'.name].CreatedAt = baselines[last'.name].CreatedAt)]_vars

====
